---- MODULE Spec2Model ----
(***************************************************************************)
(* A model of src/lambda/main.py, the puppy adoption notifier: the entry   *)
(* point lambda_handler, the listing loop fetch_and_filter_puppies, the    *)
(* detail extractor fetch_dog_details with its image URL repair, the       *)
(* report renderer send_email_report and the age parser age_to_months.     *)
(*                                                                         *)
(* Text that the code matches with regular expressions (age strings) is a  *)
(* sequence of one-character strings.  A URL is the sequence of the pieces *)
(* obtained by splitting it at "/", so "https://h/a" is                    *)
(* <<"https:", "", "h", "a">> and a trailing "/" shows as a last piece "". *)
(***************************************************************************)
EXTENDS Integers, Sequences, FiniteSets, TLC

VARIABLES
    pc,                 \* position of lambda_handler
    email_from,         \* os.environ.get("EMAIL_FROM")
    email_to,           \* os.environ.get("EMAIL_TO")
    dogs,               \* the <li> entries of the listing, in document order
    idx,                \* position of the for loop over dogs
    filtered_puppies,   \* the list built by fetch_and_filter_puppies
    result,             \* the dict returned by lambda_handler
    net,                \* history: every network call of the run, in order
    age_text,           \* argument of age_to_months
    age_in,             \* how age_text was written (years, months, form, case)
    age_out,            \* value returned by age_to_months
    detail_in,          \* the detail page handed to fetch_dog_details
    detail_out          \* the value returned by fetch_dog_details

vars == <<pc, email_from, email_to, dogs, idx, filtered_puppies, result, net,
          age_text, age_in, age_out, detail_in, detail_out>>

(***************************************************************************)
(* Bounds of the model.                                                    *)
(***************************************************************************)
MaxDogs == 2        \* entries on a listing page
MaxYears == 2       \* years written in a generated age string
MaxMonths == 12     \* months written in a generated age string
MaxSpaces == 1      \* blanks between a number and its unit word
MaxImgs == 1        \* <img> elements inside DefaultLayoutDiv
MaxPhotos == 1      \* loadPhoto('...') anchors on a detail page

(***************************************************************************)
(* Program constants.                                                      *)
(***************************************************************************)
MAX_AGE_MONTHS == 6

BASE_URL == <<"https:", "", "ws.petango.com", "webservices", "adoptablesearch", "">>

IMAGE_HOST == <<"https:", "", "ws.petango.com", "">>

\* str + str where the left string ends with "/"
Concat(base, rel) == SubSeq(base, 1, Len(base) - 1) \o rel

(***************************************************************************)
(* Characters and decimal numbers.                                         *)
(***************************************************************************)
DigitChars == <<"0", "1", "2", "3", "4", "5", "6", "7", "8", "9">>

IsDigit(c) == \E d \in 1..10 : DigitChars[d] = c

IsSpace(c) == c \in {" ", "\t"}

DigitVal(c) == (CHOOSE d \in 1..10 : DigitChars[d] = c) - 1

\* str(n)
RECURSIVE DecStr(_)
DecStr(n) ==
    IF n < 10 THEN <<DigitChars[n + 1]>>
    ELSE DecStr(n \div 10) \o <<DigitChars[(n % 10) + 1]>>

\* int(group) for a non-empty run of digits
RECURSIVE ParseInt(_)
ParseInt(ds) ==
    IF Len(ds) = 0 THEN 0
    ELSE 10 * ParseInt(SubSeq(ds, 1, Len(ds) - 1)) + DigitVal(ds[Len(ds)])

Chars_year == <<"y", "e", "a", "r">>
Chars_month == <<"m", "o", "n", "t", "h">>

\* str.upper() / str.lower() on the letters the age strings are written with
UpperChar(c) ==
    CASE c = "y" -> "Y" [] c = "e" -> "E" [] c = "a" -> "A" [] c = "r" -> "R"
      [] c = "m" -> "M" [] c = "o" -> "O" [] c = "n" -> "N" [] c = "t" -> "T"
      [] c = "h" -> "H" [] c = "s" -> "S" [] c = "w" -> "W" [] c = "k" -> "K"
      [] OTHER -> c

LowerChar(c) ==
    CASE c = "Y" -> "y" [] c = "E" -> "e" [] c = "A" -> "a" [] c = "R" -> "r"
      [] c = "M" -> "m" [] c = "O" -> "o" [] c = "N" -> "n" [] c = "T" -> "t"
      [] c = "H" -> "h" [] c = "S" -> "s" [] c = "W" -> "w" [] c = "K" -> "k"
      [] OTHER -> c

Upper(s) == [i \in 1..Len(s) |-> UpperChar(s[i])]
Lower(s) == [i \in 1..Len(s) |-> LowerChar(s[i])]
Capitalize(s) == [i \in 1..Len(s) |-> IF i = 1 THEN UpperChar(s[i]) ELSE s[i]]

(***************************************************************************)
(* re.search(r"(\d+)\s*<unit>", text).  A match starts at a digit, takes   *)
(* the longest run of digits, then the longest run of white space, and     *)
(* must then read the unit word exactly as written in the pattern.  Giving *)
(* back a digit or a blank cannot help (the next pattern item would have   *)
(* to match that digit or blank), so the longest runs decide.  The search  *)
(* returns the leftmost match; NoMatch stands for None.                    *)
(***************************************************************************)
NoMatch == <<>>

\* last index of the run of characters satisfying the test that starts at i
\* (i - 1 when the run is empty)
DigitsEnd(s, i) ==
    CHOOSE j \in (i - 1)..Len(s) :
        /\ \A k \in i..j : IsDigit(s[k])
        /\ (j = Len(s) \/ ~IsDigit(s[j + 1]))

SpacesEnd(s, i) ==
    CHOOSE j \in (i - 1)..Len(s) :
        /\ \A k \in i..j : IsSpace(s[k])
        /\ (j = Len(s) \/ ~IsSpace(s[j + 1]))

LiteralAt(s, i, lit) ==
    /\ i + Len(lit) - 1 <= Len(s)
    /\ \A k \in 1..Len(lit) : s[i + k - 1] = lit[k]

NumberUnitAt(s, i, unit) ==
    /\ IsDigit(s[i])
    /\ LiteralAt(s, SpacesEnd(s, DigitsEnd(s, i) + 1) + 1, unit)

SearchNumberUnit(s, unit) ==
    IF \E i \in 1..Len(s) : NumberUnitAt(s, i, unit)
    THEN LET i == CHOOSE a \in 1..Len(s) :
                      /\ NumberUnitAt(s, a, unit)
                      /\ \A b \in 1..(a - 1) : ~NumberUnitAt(s, b, unit)
         IN  SubSeq(s, i, DigitsEnd(s, i))
    ELSE NoMatch

\* a plausible slip: the years are added without the factor 12
age_to_months_no_factor(text) ==
    LET year_match == SearchNumberUnit(text, Chars_year)
        month_match == SearchNumberUnit(text, Chars_month)
        years == IF year_match # NoMatch THEN ParseInt(year_match) ELSE 0
        months == IF month_match # NoMatch THEN ParseInt(month_match) ELSE 0
    IN  years + months

age_to_months(text) ==
    LET year_match == SearchNumberUnit(text, Chars_year)
        month_match == SearchNumberUnit(text, Chars_month)
        years == IF year_match # NoMatch THEN ParseInt(year_match) ELSE 0
        months == IF month_match # NoMatch THEN ParseInt(month_match) ELSE 0
    IN  (years * 12) + months

(***************************************************************************)
(* Age strings as the shelter page writes them: "<n> years <m> months",    *)
(* "<m> months", "<n> years", or text with neither unit.                   *)
(***************************************************************************)
Blanks(k) == [i \in 1..k |-> " "]

Cased(word, case) ==
    CASE case = "lower" -> word
      [] case = "Title" -> Capitalize(word)
      [] case = "UPPER" -> Upper(word)

\* "<n><blanks>year[s]" in the given letter case
UnitToken(n, unit, k, plural, case) ==
    DecStr(n) \o Blanks(k) \o Cased(unit \o (IF plural THEN <<"s">> ELSE <<>>), case)

Chars_weeks == <<"w", "e", "e", "k", "s">>

AgeString(a) ==
    CASE a.form = "both" ->
             UnitToken(a.n, Chars_year, a.k, a.plural, a.case) \o <<" ">>
                 \o UnitToken(a.m, Chars_month, a.k, a.plural, a.case)
      [] a.form = "month" -> UnitToken(a.m, Chars_month, a.k, a.plural, a.case)
      [] a.form = "year" -> UnitToken(a.n, Chars_year, a.k, a.plural, a.case)
      [] a.form = "number" -> DecStr(a.m)
      [] a.form = "weeks" -> UnitToken(a.m, Chars_weeks, a.k, FALSE, a.case)
      [] a.form = "empty" -> <<>>

AgeForms == {"both", "month", "year", "number", "weeks", "empty"}

AgeInputs ==
    [n : 0..MaxYears, m : 0..MaxMonths, form : AgeForms, k : 0..MaxSpaces,
     plural : BOOLEAN, case : {"lower", "Title", "UPPER"}]

(***************************************************************************)
(* Optional values: <<>> is Python's None, <<v>> is the value v.           *)
(***************************************************************************)
Absent == <<>>
Some(v) == <<v>>

\* "x or default" on an optional string: None and "" are both falsy
OrDefault(opt, default) == IF opt = Absent \/ opt[1] = "" THEN default ELSE opt[1]

(***************************************************************************)
(* extract_detail_url: re.search(r"poptastic\('([^']+)'\)", js_href).  An  *)
(* href is the sequence of its lexical pieces; the quote is a piece of its *)
(* own, and the pieces between two quotes are the "/"-pieces of the path.  *)
(***************************************************************************)
PoptasticAt(h, i, j) ==
    /\ i + 2 < j
    /\ j + 1 <= Len(h)
    /\ h[i] = "poptastic("
    /\ h[i + 1] = "'"
    /\ \A k \in (i + 2)..(j - 1) : h[k] # "'"
    /\ h[j] = "'"
    /\ h[j + 1] = ")"

extract_detail_url(js_href) ==
    IF \E i \in 1..Len(js_href), j \in 1..Len(js_href) : PoptasticAt(js_href, i, j)
    THEN LET i == CHOOSE a \in 1..Len(js_href) :
                      /\ \E j \in 1..Len(js_href) : PoptasticAt(js_href, a, j)
                      /\ \A b \in 1..(a - 1) :
                             ~\E j \in 1..Len(js_href) : PoptasticAt(js_href, b, j)
             j == CHOOSE b \in 1..Len(js_href) : PoptasticAt(js_href, i, b)
         IN  Some(Concat(BASE_URL, SubSeq(js_href, i + 2, j - 1)))
    ELSE Absent

(***************************************************************************)
(* Image sources.  An <img> without a src attribute has the source <<>>.   *)
(***************************************************************************)
StartsWithPiece(src, piece) == Len(src) >= 2 /\ src[1] = piece

\* src.replace('../', ''): every ".." piece that a "/" follows is removed
RECURSIVE RemoveDotDot(_)
RemoveDotDot(src) ==
    IF Len(src) <= 1 THEN src
    ELSE IF Head(src) = ".." THEN RemoveDotDot(Tail(src))
    ELSE <<Head(src)>> \o RemoveDotDot(Tail(src))

\* one iteration of the loop of fix_relative_image_urls: the new src of an img
FixSrc(src, base_url) ==
    IF src = <<>> \/ src = <<"">> THEN src
    ELSE IF StartsWithPiece(src, "..") THEN Concat(IMAGE_HOST, RemoveDotDot(src))
    ELSE IF StartsWithPiece(src, "images") THEN Concat(base_url, src)
    ELSE src

\* the srcs of the <img> elements of layout_div after the in-place rewrite
fix_relative_image_urls(imgs, base_url) ==
    [i \in 1..Len(imgs) |-> FixSrc(imgs[i], base_url)]

(***************************************************************************)
(* A detail page: whether it has the DefaultLayoutDiv, the srcs of the     *)
(* <img> elements inside it, where the element with id imgAnimalPhoto is   *)
(* (absent, the first img of the div, or an element outside the div with   *)
(* its own src), the arguments of the loadPhoto('...') anchors in document *)
(* order, and the text of the labelled fields.                             *)
(***************************************************************************)
MainImgSrc(page, fixed_imgs) ==
    CASE page.main.at = "none" -> <<>>
      [] page.main.at = "layout" -> fixed_imgs[1]
      [] page.main.at = "outside" -> page.main.src

RECURSIVE AppendNew(_, _)
\* the loop over photo_links: append each url not yet in the list
AppendNew(urls, photos) ==
    IF photos = <<>> THEN urls
    ELSE AppendNew(
             IF \E k \in 1..Len(urls) : urls[k] = Head(photos)
             THEN urls ELSE Append(urls, Head(photos)),
             Tail(photos))

extract_image_urls(page, fixed_imgs) ==
    LET src == MainImgSrc(page, fixed_imgs)
        first == IF page.main.at # "none" /\ src # <<>> /\ src # <<"">>
                 THEN <<src>> ELSE <<>>
    IN  AppendNew(first, page.photos)

\* response.raise_for_status() raises HTTPError for 400 <= status < 600
RaisesForStatus(status_code) == 400 <= status_code /\ status_code < 600

DogDetails(page, detail_url, dog_name) ==
    LET fixed == fix_relative_image_urls(page.imgs, BASE_URL)
    IN  [name |-> OrDefault(page.labels.lbName, dog_name),
         id |-> OrDefault(page.labels.lblID, "Unknown"),
         breed |-> OrDefault(page.labels.lbBreed, "Unknown"),
         age |-> OrDefault(page.labels.lbAge, "Unknown"),
         gender |-> OrDefault(page.labels.lbSex, "Unknown"),
         size |-> OrDefault(page.labels.lblSize, "Unknown"),
         color |-> OrDefault(page.labels.lblColor, "Unknown"),
         detail_url |-> detail_url,
         image_urls |-> extract_image_urls(page, fixed),
         layout_html |-> fixed]

\* a plausible slip: raise_for_status() is not called
fetch_dog_details_no_status_check(resp, detail_url, dog_name) ==
    IF resp.raises # Absent THEN Absent
    ELSE IF ~resp.page.layout THEN Absent
    ELSE Some(DogDetails(resp.page, detail_url, dog_name))

\* resp is what requests.get(detail_url) does: it raises a RequestException
\* or returns a response with a status code and a page
fetch_dog_details(resp, detail_url, dog_name) ==
    IF resp.raises # Absent THEN Absent
    ELSE IF RaisesForStatus(resp.status_code) THEN Absent
    ELSE IF ~resp.page.layout THEN Absent
    ELSE Some(DogDetails(resp.page, detail_url, dog_name))

(***************************************************************************)
(* Exceptions.  The classes the run can meet and those of their bases the  *)
(* handlers test: requests' InvalidSchema, InvalidURL and MissingSchema    *)
(* derive from both RequestException and ValueError.                       *)
(***************************************************************************)
Exc(type, msg) == [type |-> type, msg |-> msg]

IsValueError(type) == type \in {"ValueError", "InvalidSchema"}

IsPuppyNotFoundError(type) == type = "PuppyNotFoundError"

\* a plausible slip: the configuration is taken as missing only without a sender
ConfigMissing_from_only(from, to) == from = Absent \/ from[1] = ""

\* not email_from or not email_to; an address list "" is <<"">>
ConfigMissing(from, to) ==
    \/ from = Absent \/ from[1] = ""
    \/ to = Absent \/ to[1] = <<"">>

\* the except clauses of lambda_handler, in their order
HandleException(e) ==
    IF IsPuppyNotFoundError(e.type)
    THEN [statusCode |-> 200, body |-> <<"No puppies found">>]
    ELSE IF IsValueError(e.type)
    THEN [statusCode |-> 400, body |-> e.msg]
    ELSE [statusCode |-> 500, body |-> e.msg]

Success == [statusCode |-> 200, body |-> <<"Email sent successfully!">>]

NoResult == [statusCode |-> 0, body |-> <<>>]

(***************************************************************************)
(* The listing page: each <li> has an optional list-animal-age text, an    *)
(* optional list-animal-name text and an optional first <a>, whose href is *)
(* optional too (<<>> when the attribute is missing or empty).             *)
(***************************************************************************)
Months(m) == AgeString([n |-> 0, m |-> m, form |-> "month", k |-> 1,
                        plural |-> TRUE, case |-> "lower"])

Href(id) == <<"javascript:", "poptastic(", "'", id, "'", ")", ";">>

Li(age, name, a) == [age |-> age, name |-> name, a |-> a]

ListingEntries ==
    {Li(Some(Months(m)), Some("Rex"), Some(Href("Details.aspx?id=1"))) :
         m \in (MAX_AGE_MONTHS - 1)..(MAX_AGE_MONTHS + 1)}
    \cup {Li(Some(<<>>), Some("Bo"), Some(Href("Details.aspx?id=2"))),
          Li(Some(<<"1", " ", "y", "e", "a", "r">>), Some("Old"),
             Some(Href("Details.aspx?id=3"))),
          Li(Absent, Some("Ann"), Some(Href("Details.aspx?id=4"))),
          Li(Some(Months(3)), Absent, Some(Href("Details.aspx?id=5"))),
          Li(Some(Months(3)), Some("Cy"), Absent),
          Li(Some(Months(3)), Some("Di"), Some(<<>>)),
          Li(Some(Months(3)), Some("Eve"), Some(<<"javascript:", "void(0)">>))}

Listings == UNION {[1..n -> ListingEntries] : n \in 0..MaxDogs}

\* what requests.get(SHELTER_URL) does
ListingResponses ==
    {[raises |-> Some(t), status_code |-> 0, dogs |-> <<>>] :
         t \in {"ConnectionError", "InvalidSchema"}}
    \cup {[raises |-> Absent, status_code |-> c, dogs |-> <<>>] : c \in {203, 404}}
    \cup {[raises |-> Absent, status_code |-> 200, dogs |-> l] : l \in Listings}

(***************************************************************************)
(* Detail pages and what requests.get(detail_url) does.                    *)
(***************************************************************************)
Labels(name, breed) ==
    [lbName |-> name, lblID |-> Absent, lbBreed |-> breed, lbAge |-> Absent,
     lbSex |-> Absent, lblSize |-> Absent, lblColor |-> Absent]

Page(layout, imgs, main, photos, labels) ==
    [layout |-> layout, imgs |-> imgs, main |-> main, photos |-> photos,
     labels |-> labels]

NoMain == [at |-> "none", src |-> <<>>]

RexPage ==
    Page(TRUE, <<<<"..", "images", "rex.jpg">>>>, [at |-> "layout", src |-> <<>>],
         <<>>, Labels(Some("Rex"), Some("Lab Mix")))

BarePage == Page(TRUE, <<>>, NoMain, <<>>, Labels(Absent, Some("")))

ErrorPage == Page(FALSE, <<>>, NoMain, <<>>, Labels(Absent, Absent))

DetailResponses ==
    {[raises |-> Some(t), status_code |-> 0, page |-> ErrorPage] :
         t \in {"ConnectionError", "InvalidSchema"}}
    \cup {[raises |-> Absent, status_code |-> 404, page |-> RexPage],
          [raises |-> Absent, status_code |-> 203, page |-> RexPage],
          [raises |-> Absent, status_code |-> 200, page |-> ErrorPage],
          [raises |-> Absent, status_code |-> 200, page |-> RexPage],
          [raises |-> Absent, status_code |-> 200, page |-> BarePage]}

(***************************************************************************)
(* The report.  An e-mail body is either the fixed empty-state paragraph   *)
(* or the document with its heading and one section per puppy.             *)
(***************************************************************************)
format_puppy_html(puppy) ==
    [h2 |-> puppy.name,
     table |-> [ID |-> puppy.id, Breed |-> puppy.breed, Age |-> puppy.age,
                Gender |-> puppy.gender, Size |-> puppy.size, Color |-> puppy.color],
     imgs |-> puppy.image_urls,
     href |-> puppy.detail_url]

NoPuppiesBody ==
    [kind |-> "no_puppies", months |-> 6, found |-> 0, sections |-> <<>>]

ReportBody(puppies) ==
    [kind |-> "report", months |-> MAX_AGE_MONTHS, found |-> Len(puppies),
     sections |-> [i \in 1..Len(puppies) |-> format_puppy_html(puppies[i])]]

\* a plausible slip: the empty list is rendered like any other
RenderBody_no_empty_case(puppies) == ReportBody(puppies)

\* the body send_email_report prepares
RenderBody(puppies) ==
    IF puppies = <<>> THEN NoPuppiesBody ELSE ReportBody(puppies)

\* what ses_client.send_email does: it returns or raises
SendOutcomes == {Absent, Some("ClientError")}

(***************************************************************************)
(* Inputs of the detail extractor on its own.                              *)
(***************************************************************************)
Srcs ==
    {<<>>,
     <<"..", "images", "a.jpg">>,
     <<"images", "b.jpg">>,
     <<"https:", "", "g.petango.com", "photos", "c.jpg">>,
     <<"photos", "d.jpg">>}

SeqsUpTo(S, n) == UNION {[1..k -> S] : k \in 0..n}

MainChoices(imgs) ==
    {NoMain}
    \cup (IF imgs = <<>> THEN {} ELSE {[at |-> "layout", src |-> <<>>]})
    \cup {[at |-> "outside", src |-> u] : u \in Srcs}

DetailPages ==
    {Page(TRUE, imgs, main, photos, labels) :
         imgs \in SeqsUpTo(Srcs, MaxImgs),
         main \in {[at |-> a, src |-> u] : a \in {"none", "layout", "outside"}, u \in Srcs},
         photos \in SeqsUpTo(Srcs \ {<<>>}, MaxPhotos),
         labels \in {Labels(Some("Rex"), Some("Lab Mix")), Labels(Absent, Absent)}}

DetailInputs ==
    {[raises |-> Absent, status_code |-> 200, page |-> p] :
         p \in {q \in DetailPages : q.main \in MainChoices(q.imgs)}}
    \cup DetailResponses

(***************************************************************************)
(* The run of lambda_handler.                                              *)
(***************************************************************************)
Event(op, i, resp) == [op |-> op, i |-> i, resp |-> resp]

IdleAge == [n |-> 0, m |-> 0, form |-> "empty", k |-> 0, plural |-> FALSE,
            case |-> "lower"]

IdleDetail == [raises |-> Absent, status_code |-> 200, page |-> ErrorPage]

Init ==
    /\ pc = "start"
    /\ email_from \in {Absent, Some(""), Some("from@example.org")}
    /\ email_to \in {Absent, Some(<<"">>), Some(<<"a@example.org", "b@example.org">>)}
    /\ dogs = <<>>
    /\ idx = 1
    /\ filtered_puppies = <<>>
    /\ result = NoResult
    /\ net = <<>>
    /\ age_in = IdleAge
    /\ age_text = <<>>
    /\ age_out = 0
    /\ detail_in = IdleDetail
    /\ detail_out = Absent

PipelineIdle == UNCHANGED <<age_text, age_in, age_out, detail_in, detail_out>>

\* lambda_handler raised e inside its try block
Return(e) ==
    /\ result' = HandleException(e)
    /\ pc' = "done"

\* lines 53-59
CheckConfig ==
    /\ pc = "start"
    /\ IF ConfigMissing(email_from, email_to)
       THEN Return(Exc("ValueError",
                       <<"Email configuration missing. Check environment variables.">>))
       ELSE /\ pc' = "fetch_listing"
            /\ UNCHANGED result
    /\ UNCHANGED <<email_from, email_to, dogs, idx, filtered_puppies, net>>
    /\ PipelineIdle

\* lines 243-256
FetchListing ==
    /\ pc = "fetch_listing"
    /\ \E resp \in ListingResponses :
        /\ net' = Append(net, Event("listing", 0, resp))
        /\ IF resp.raises # Absent
           THEN /\ Return(Exc(resp.raises[1], <<"requests: ", resp.raises[1]>>))
                /\ UNCHANGED dogs
           ELSE IF resp.status_code # 200
           THEN /\ Return(Exc("Exception",
                              <<"Failed to fetch data: ">> \o DecStr(resp.status_code)))
                /\ UNCHANGED dogs
           ELSE /\ dogs' = resp.dogs
                /\ pc' = "loop"
                /\ UNCHANGED result
    /\ UNCHANGED <<email_from, email_to, idx, filtered_puppies>>
    /\ PipelineIdle

\* a plausible slip: the comparison lets the threshold itself through
IsPuppy_inclusive(total_months) == ~(total_months > MAX_AGE_MONTHS)

\* line 272, negated: the entry is not skipped
IsPuppy(total_months) == ~(total_months >= MAX_AGE_MONTHS)

\* a plausible slip: the new record is put in front
AppendPuppy_in_front(puppies, dog_details) == <<dog_details>> \o puppies

\* line 291
AppendPuppy(puppies, dog_details) == Append(puppies, dog_details)

\* lines 259-286: the detail URL of an entry that reaches line 289, else None
CandidateUrl(dog) ==
    IF dog.age = Absent \/ dog.name = Absent THEN Absent
    ELSE IF ~IsPuppy(age_to_months(dog.age[1])) THEN Absent
    ELSE IF dog.a = Absent \/ dog.a[1] = <<>> THEN Absent
    ELSE extract_detail_url(dog.a[1])

\* one iteration of the loop of fetch_and_filter_puppies, lines 258-291
ProcessDog ==
    /\ pc = "loop"
    /\ idx <= Len(dogs)
    /\ LET detail_url == CandidateUrl(dogs[idx])
       IN  IF detail_url = Absent
           THEN UNCHANGED <<filtered_puppies, net>>
           ELSE \E resp \in DetailResponses :
                    LET dog_details ==
                            fetch_dog_details(resp, detail_url[1], dogs[idx].name[1])
                    IN  /\ net' = Append(net, Event("detail", idx, resp))
                        /\ filtered_puppies' =
                               IF dog_details # Absent
                               THEN AppendPuppy(filtered_puppies, dog_details[1])
                               ELSE filtered_puppies
    /\ idx' = idx + 1
    /\ UNCHANGED <<pc, email_from, email_to, dogs, result>>
    /\ PipelineIdle

\* lines 293-296, 63-66 and send_email_report, lines 352-399
SendEmailReport ==
    /\ pc = "loop"
    /\ idx > Len(dogs)
    /\ \E raised \in SendOutcomes :
        /\ net' = Append(net, Event("send", 0,
                                    [raises |-> raised,
                                     Source |-> email_from[1],
                                     ToAddresses |-> email_to[1],
                                     body |-> RenderBody(filtered_puppies)]))
        /\ IF raised # Absent
           THEN Return(Exc(raised[1], <<"ses: ", raised[1]>>))
           ELSE /\ result' = Success
                /\ pc' = "done"
    /\ UNCHANGED <<email_from, email_to, dogs, idx, filtered_puppies>>
    /\ PipelineIdle

Next == CheckConfig \/ FetchListing \/ ProcessDog \/ SendEmailReport

Spec == Init /\ [][Next]_vars

(***************************************************************************)
(* age_to_months applied to generated age strings.                         *)
(***************************************************************************)
InitAge ==
    /\ pc = "age_input"
    /\ age_in \in AgeInputs
    /\ age_text = AgeString(age_in)
    /\ age_out = 0
    /\ email_from = Absent
    /\ email_to = Absent
    /\ dogs = <<>>
    /\ idx = 1
    /\ filtered_puppies = <<>>
    /\ result = NoResult
    /\ net = <<>>
    /\ detail_in = IdleDetail
    /\ detail_out = Absent

ComputeAge ==
    /\ pc = "age_input"
    /\ age_out' = age_to_months(age_text)
    /\ pc' = "age_done"
    /\ UNCHANGED <<email_from, email_to, dogs, idx, filtered_puppies, result, net,
                   age_text, age_in, detail_in, detail_out>>

NextAge == ComputeAge

SpecAge == InitAge /\ [][NextAge]_vars

(***************************************************************************)
(* fetch_dog_details applied to generated detail pages.                    *)
(***************************************************************************)
DETAIL_URL == Concat(BASE_URL, <<"Details.aspx?id=1">>)

InitDetail ==
    /\ pc = "detail_input"
    /\ detail_in \in DetailInputs
    /\ detail_out = Absent
    /\ email_from = Absent
    /\ email_to = Absent
    /\ dogs = <<>>
    /\ idx = 1
    /\ filtered_puppies = <<>>
    /\ result = NoResult
    /\ net = <<>>
    /\ age_in = IdleAge
    /\ age_text = <<>>
    /\ age_out = 0

FetchDogDetails ==
    /\ pc = "detail_input"
    /\ detail_out' = fetch_dog_details(detail_in, DETAIL_URL, "Rex")
    /\ pc' = "detail_done"
    /\ UNCHANGED <<email_from, email_to, dogs, idx, filtered_puppies, result, net,
                   age_text, age_in, age_out, detail_in>>

NextDetail == FetchDogDetails

SpecDetail == InitDetail /\ [][NextDetail]_vars

(***************************************************************************)
(* Vocabulary of the properties, read off the history of network calls.    *)
(***************************************************************************)
Calls(op) == {k \in DOMAIN net : net[k].op = op}

ListingFetched ==
    /\ net # <<>>
    /\ net[1].op = "listing"
    /\ net[1].resp.raises = Absent
    /\ net[1].resp.status_code = 200

ListingFailed ==
    /\ net # <<>>
    /\ net[1].op = "listing"
    /\ (net[1].resp.raises # Absent \/ net[1].resp.status_code # 200)

\* the detail fetch failed: it raised, answered with an error status (4xx or
\* 5xx), or the page has no DefaultLayoutDiv
DetailFailed(resp) ==
    \/ resp.raises # Absent
    \/ resp.status_code \in 400..599
    \/ ~resp.page.layout

\* the same with "a non-200 status" in place of "an error status"
DetailFailedNon200(resp) ==
    \/ resp.raises # Absent
    \/ resp.status_code # 200
    \/ ~resp.page.layout

HasAgeAndName(dog) == dog.age # Absent /\ dog.name # Absent

LinkResolves(dog) == dog.a # Absent /\ extract_detail_url(dog.a[1]) # Absent

FetchedFor(i) == \E k \in Calls("detail") : net[k].i = i

SucceededFor(i) == \E k \in Calls("detail") : net[k].i = i /\ ~DetailFailed(net[k].resp)

\* the entries i < idx that the loop has already gone through
Processed == 1..(idx - 1)

ConfigAbsentOrEmpty ==
    \/ email_from = <<>> \/ email_from = <<"">>
    \/ email_to = <<>> \/ email_to = <<<<"">>>>

IsAbsolute(url) ==
    /\ Len(url) >= 3
    /\ url[1] \in {"http:", "https:"}
    /\ url[2] = ""
    /\ url[3] # ""

(***************************************************************************)
(* C1 as stated: a detail fetch that raises, returns a non-200 status or   *)
(* has no DefaultLayoutDiv drops that candidate and only it; the later     *)
(* candidates are still fetched and the report is still sent.              *)
(***************************************************************************)
C1_DropsOnNon200 ==
    ListingFetched =>
        Len(filtered_puppies)
            = Cardinality({k \in Calls("detail") : ~DetailFailedNon200(net[k].resp)})

(***************************************************************************)
(* C1, amended: a detail fetch that raises, returns an error status (4xx   *)
(* or 5xx) or has no DefaultLayoutDiv drops that candidate and only it:    *)
(* the list holds one record per detail fetch that did not fail, every     *)
(* candidate of the listing is fetched whatever happened to the earlier    *)
(* ones, and the run ends with one send_email call carrying one section    *)
(* per record (status 200 when that call returns).                         *)
(***************************************************************************)
C1_FailureDropsOnlyThatCandidate ==
    ListingFetched =>
        /\ Len(filtered_puppies)
               = Cardinality({k \in Calls("detail") : ~DetailFailed(net[k].resp)})
        /\ \A i \in Processed :
               (HasAgeAndName(dogs[i])
                    /\ age_to_months(dogs[i].age[1]) < MAX_AGE_MONTHS
                    /\ LinkResolves(dogs[i])) => FetchedFor(i)
        /\ pc \in {"loop", "done"}
        /\ pc = "done" =>
               /\ idx = Len(dogs) + 1
               /\ Cardinality(Calls("send")) = 1
               /\ net[Len(net)].op = "send"
               /\ Len(net[Len(net)].resp.body.sections)
                      = Cardinality({k \in Calls("detail") : ~DetailFailed(net[k].resp)})
               /\ net[Len(net)].resp.raises = Absent => result.statusCode = 200

C1_Witness ==
    /\ pc = "done"
    /\ result.statusCode = 200
    /\ \E k1, k2 \in Calls("detail") :
           /\ k1 < k2
           /\ (net[k1].resp.raises # Absent \/ net[k1].resp.status_code = 404)
           /\ ~DetailFailed(net[k2].resp)
    /\ Len(net[Len(net)].resp.body.sections) = 1

(***************************************************************************)
(* C2: when the listing fetch raises or returns a non-200 status, the      *)
(* handler returns 500 and the run makes no other network call (no detail  *)
(* fetch, no send_email).                                                  *)
(***************************************************************************)
C2_ListingFailureIs500 ==
    (pc = "done" /\ ListingFailed) =>
        /\ result.statusCode = 500
        /\ Len(net) = 1

(***************************************************************************)
(* C3: with EMAIL_FROM or EMAIL_TO missing or empty the handler returns    *)
(* 400 and the run makes no network call at all.                           *)
(***************************************************************************)
C3_ConfigErrorIs400WithoutNetwork ==
    ConfigAbsentOrEmpty =>
        /\ net = <<>>
        /\ pc \in {"start", "done"}
        /\ pc = "done" => result.statusCode = 400

C3_Witness ==
    /\ pc = "done"
    /\ email_from = <<"from@example.org">>
    /\ email_to = <<<<"">>>>
    /\ result.statusCode = 400
    /\ net = <<>>

(***************************************************************************)
(* C4: when the listing was fetched and no candidate survives, the run     *)
(* makes exactly one send_email call, its body is the fixed "no puppies"   *)
(* message, and the handler returns 200 once that call has returned.       *)
(***************************************************************************)
C4_EmptyResultStillReported ==
    (pc = "done" /\ ListingFetched /\ filtered_puppies = <<>>) =>
        /\ Cardinality(Calls("send")) = 1
        /\ \A k \in Calls("send") :
               /\ k = Len(net)
               /\ net[k].resp.body.kind = "no_puppies"
               /\ net[k].resp.body.sections = <<>>
               /\ net[k].resp.raises = Absent => result = Success

C4_Witness ==
    /\ pc = "done"
    /\ ListingFetched
    /\ filtered_puppies = <<>>
    /\ Calls("detail") # {}
    /\ \E i \in DOMAIN dogs : HasAgeAndName(dogs[i]) /\ ~FetchedFor(i)
    /\ net[Len(net)].resp.body = NoPuppiesBody
    /\ result.statusCode = 200

(***************************************************************************)
(* C5: a non-empty report holds one section per listing entry that passed  *)
(* the age filter, had a resolvable detail link and whose detail           *)
(* extraction succeeded, in the order of the listing, and the count of its *)
(* heading is the number of its sections.                                  *)
(***************************************************************************)
SurvivorIndexes ==
    LET Survives(i) ==
            /\ HasAgeAndName(dogs[i])
            /\ age_to_months(dogs[i].age[1]) < MAX_AGE_MONTHS
            /\ LinkResolves(dogs[i])
            /\ SucceededFor(i)
    IN  SelectSeq([i \in 1..Len(dogs) |-> i], Survives)

C5_OneSectionPerSurvivorInOrder ==
    \A k \in Calls("send") :
        LET body == net[k].resp.body
        IN  body.kind = "report" =>
                /\ Len(body.sections) = Len(SurvivorIndexes)
                /\ Len(body.sections) > 0
                /\ body.found = Len(body.sections)
                /\ \A j \in 1..Len(body.sections) :
                       LET dog == dogs[SurvivorIndexes[j]]
                           resp == net[CHOOSE e \in Calls("detail") :
                                           net[e].i = SurvivorIndexes[j]].resp
                       IN  /\ body.sections[j].href = extract_detail_url(dog.a[1])[1]
                           /\ body.sections[j].h2
                                  = OrDefault(resp.page.labels.lbName, dog.name[1])

C5_Witness ==
    /\ pc = "done"
    /\ Len(dogs) = 2
    /\ \E k \in Calls("send") :
           /\ net[k].resp.body.kind = "report"
           /\ net[k].resp.body.found = 2
           /\ net[k].resp.body.sections[1].h2 = "Bo"
           /\ net[k].resp.body.sections[2].h2 = "Rex"
           /\ net[k].resp.body.sections[1].href # net[k].resp.body.sections[2].href

(***************************************************************************)
(* C6: in every record fetch_dog_details returns, every URL of image_urls  *)
(* and every img src of layout_html is absolute.                           *)
(***************************************************************************)
C6_ImageUrlsAbsolute ==
    (pc = "detail_done" /\ detail_out # Absent) =>
        /\ \A k \in DOMAIN detail_out[1].image_urls :
               IsAbsolute(detail_out[1].image_urls[k])
        /\ \A k \in DOMAIN detail_out[1].layout_html :
               detail_out[1].layout_html[k] # <<>>
                   => IsAbsolute(detail_out[1].layout_html[k])

(***************************************************************************)
(* C7: the filter is strictly "less than 6 months": a detail page is       *)
(* fetched only for entries whose parsed age is below 6, an entry with a   *)
(* name, an age and a resolvable link is fetched exactly when its parsed   *)
(* age is below 6, and in particular "6 months" is excluded and            *)
(* "5 months" included.                                                    *)
(***************************************************************************)
C7_StrictlyLessThanSix ==
    ListingFetched =>
        /\ \A k \in Calls("detail") :
               age_to_months(dogs[net[k].i].age[1]) < 6
        /\ \A i \in Processed :
               (HasAgeAndName(dogs[i]) /\ LinkResolves(dogs[i])) =>
                   (FetchedFor(i) <=> age_to_months(dogs[i].age[1]) < 6)
        /\ \A i \in Processed :
               /\ dogs[i].age = <<<<"6", " ", "m", "o", "n", "t", "h", "s">>>>
                      => ~FetchedFor(i)
               /\ (dogs[i].age = <<<<"5", " ", "m", "o", "n", "t", "h", "s">>>>
                       /\ HasAgeAndName(dogs[i]) /\ LinkResolves(dogs[i]))
                      => FetchedFor(i)

C7_Witness ==
    /\ pc = "done"
    /\ \E i, j \in DOMAIN dogs :
           /\ i < j
           /\ dogs[i].age = <<<<"6", " ", "m", "o", "n", "t", "h", "s">>>>
           /\ dogs[j].age = <<<<"5", " ", "m", "o", "n", "t", "h", "s">>>>
           /\ ~FetchedFor(i)
           /\ FetchedFor(j)

(***************************************************************************)
(* C8: the handler returns 400 only for a missing sender or recipient;     *)
(* once the configuration check has passed every failure gives 500.        *)
(***************************************************************************)
C8_Only400ForConfig ==
    (pc = "done" /\ result.statusCode = 400) => ConfigAbsentOrEmpty

(***************************************************************************)
(* C9: age_to_months returns 12*n + m for "<n> years <m> months", m for a  *)
(* string with only a month token, 12*n for one with only a year token and *)
(* 0 for a string with neither (a bare number, another unit, the empty     *)
(* string).                                                                *)
(***************************************************************************)
C9_AgeToMonths ==
    (pc = "age_done" /\ age_in.case = "lower") =>
        age_out = CASE age_in.form = "both" -> 12 * age_in.n + age_in.m
                    [] age_in.form = "month" -> age_in.m
                    [] age_in.form = "year" -> 12 * age_in.n
                    [] OTHER -> 0

C9_Witness ==
    /\ pc = "age_done"
    /\ age_in.case = "lower"
    /\ age_in.form = "both"
    /\ age_in.n = 2
    /\ age_in.m = 11
    /\ age_text = <<"2", " ", "y", "e", "a", "r", "s", " ",
                    "1", "1", " ", "m", "o", "n", "t", "h", "s">>
    /\ age_out = 35

(***************************************************************************)
(* C10: an age string gives the same month count as its all-lowercase      *)
(* form, whatever the letter case of its unit words.                       *)
(***************************************************************************)
C10_CaseInsensitive ==
    pc = "age_done" => age_out = age_to_months(Lower(age_text))

====
